---- MODULE Spec2Model ----
(***************************************************************************)
(* Verification model of the delivery-order backend (abduvali-web/hi2):    *)
(*   - the in-memory sliding-window rate limiter (src/lib/rate-limiter.ts) *)
(*   - the event-dispatch ledger and the order_paid analytics dispatch     *)
(*     of the order handlers (src/lib/event-dispatch.ts, orders routes)    *)
(*   - the auto-order scheduler and order-number assignment (server.ts)    *)
(* Each subsystem has its own specification over the shared state.         *)
(***************************************************************************)
EXTENDS Integers, Sequences, FiniteSets, Bags, TLC

VARIABLES
    now,              \* rate limiter: Date.now(), in scaled milliseconds
    rateLimitStore,   \* rate limiter: Map<string, RateLimitRecord>
    admitted,         \* history: per identifier, the allowed calls of the trailing window
    lastResult,       \* history: <<>> or <<the result of the call that just returned>>
    gate,             \* middleware: the request passed on to its route handler, the last response
    clock,            \* new Date() of the order handlers and the scheduler, in days
    orders,           \* table orders: order id -> row
    nextOrderId,      \* the next fresh order id (cuid)
    customers,        \* table customers: customer id -> row
    numberLog,        \* history: the order numbers assigned, in creation order
    eventDispatch,    \* table EventDispatch: <<orderId, eventName>> -> number of rows
    ledgerUp,         \* whether the EventDispatch table can be reached
    configured,       \* endpoint -> whether its environment variables are set
    received,         \* endpoint -> order id -> purchase calls the endpoint received
    reqs,             \* POST /api/orders requests between findFirst and create (a bag)
    tasks,            \* detached analytics dispatch tasks in flight (a bag)
    marks,            \* history of the dispatch of each order
    patchLog,         \* per order: the PATCH requests between findUnique and update, and history
    runs,             \* runAutoOrderScheduler invocations in progress (a bag)
    genLog,           \* history: per customer, the runs that generated orders for it
    dupRejected,      \* history: an insert was rejected by the order-number constraint
    runLog            \* history: <<>> or <<the scheduler run that ended last>>

rlVars == <<now, rateLimitStore, admitted, lastResult, gate>>

dbVars == <<clock, orders, nextOrderId, customers, numberLog>>

dispatchVars == <<eventDispatch, ledgerUp, configured, received, reqs, tasks, marks,
                  patchLog>>

schedVars == <<runs, genLog, dupRejected, runLog>>

vars == <<now, rateLimitStore, admitted, lastResult, gate, clock, orders, nextOrderId,
          customers, numberLog, eventDispatch, ledgerUp, configured, received, reqs, tasks, marks,
          patchLog, runs, genLog, dupRejected, runLog>>

(***************************************************************************)
(* Bounds of the model.  The limits and the window are read from the       *)
(* environment (RATE_LIMIT_ variables); the values are scaled stand-ins.   *)
(***************************************************************************)
MaxTime == 6
WindowMs == 3
AuthMax == 2
ApiMax == 3
MaxSchedOrders == 3
MaxRuns == 1
MaxDay == 2
EligibilityDays == 1
HorizonDays == 1
MaxReqs == 1
MaxTasks == 2
MsPerSecond == 2
MaxPatches == 2

Identifiers == {"ip1"}

(***************************************************************************)
(* Rate limiter                                                            *)
(***************************************************************************)
RATE_LIMIT_CONFIGS ==
    [auth |-> [maxRequests |-> AuthMax, windowMs |-> WindowMs],
     api  |-> [maxRequests |-> ApiMax,  windowMs |-> WindowMs]]

ConfigTypes == DOMAIN RATE_LIMIT_CONFIGS

\* if (!record || record.resetTime < now)
NeedsReset(store, key, t) ==
    key \notin DOMAIN store \/ store[key].resetTime < t

NewRecord(config, t) ==
    [count |-> 0, resetTime |-> t + config.windowMs, requestTimestamps |-> <<>>]

\* record.requestTimestamps.filter(timestamp => timestamp > windowStart)
InWindow(timestamp, windowStart) == timestamp > windowStart

FilterTimestamps(timestamps, windowStart) ==
    SelectSeq(timestamps, LAMBDA timestamp : InWindow(timestamp, windowStart))

\* if (record.requestTimestamps.length >= config.maxRequests)
LimitExceeded_offByOne(timestamps, config) == Len(timestamps) > config.maxRequests

LimitExceeded(timestamps, config) == Len(timestamps) >= config.maxRequests

\* return { allowed: false, remaining: 0, resetTime: requestTimestamps[0] + windowMs }
DeniedResult_recordReset(record, config) ==
    [allowed |-> FALSE, remaining |-> 0, resetTime |-> record.resetTime]

DeniedResult(record, config) ==
    [allowed |-> FALSE, remaining |-> 0,
     resetTime |-> record.requestTimestamps[1] + config.windowMs]

\* return { allowed: true, remaining: maxRequests - record.count, resetTime: record.resetTime }
AllowedResult_beforePush(record, config) ==
    [allowed |-> TRUE, remaining |-> config.maxRequests - (record.count - 1),
     resetTime |-> record.resetTime]

AllowedResult(record, config) ==
    [allowed |-> TRUE, remaining |-> config.maxRequests - record.count,
     resetTime |-> record.resetTime]

\* requestTimestamps.push(now); record.count = requestTimestamps.length
PushTimestamp(record, t) ==
    LET ts == Append(record.requestTimestamps, t)
    IN  [record EXCEPT !.requestTimestamps = ts, !.count = Len(ts)]

StorePut(store, key, record) ==
    [k \in DOMAIN store \cup {key} |-> IF k = key THEN record ELSE store[k]]

\* checkRateLimit(identifier, config) at time t: the new store and the result
checkRateLimit(store, identifier, config, t) ==
    LET record0 == IF NeedsReset(store, identifier, t)
                   THEN NewRecord(config, t)
                   ELSE store[identifier]
        pruned  == [record0 EXCEPT !.requestTimestamps =
                       FilterTimestamps(record0.requestTimestamps, t - config.windowMs)]
    IN  IF LimitExceeded(pruned.requestTimestamps, config)
        THEN [store  |-> StorePut(store, identifier, pruned),
              result |-> DeniedResult(pruned, config)]
        ELSE LET pushed == PushTimestamp(pruned, t)
             IN  [store  |-> StorePut(store, identifier, pushed),
                  result |-> AllowedResult(pushed, config)]

InitRL ==
    /\ now = 0
    /\ rateLimitStore = << >>
    /\ admitted = [k \in Identifiers |-> << >>]
    /\ lastResult = << >>
    /\ gate = [waiting |-> << >>, last |-> << >>]

\* One request reaches the limiter.  checkRateLimit is synchronous (it has no
\* await), so concurrent requests run it one after the other, possibly at the
\* same millisecond.
CheckRateLimitStep(identifier, configType) ==
    LET config == RATE_LIMIT_CONFIGS[configType]
        out    == checkRateLimit(rateLimitStore, identifier, config, now)
        entry  == [at |-> now, cfg |-> configType,
                   epoch |-> out.store[identifier].resetTime]
    IN  /\ rateLimitStore' = out.store
        /\ lastResult' = << [key |-> identifier, cfg |-> configType, at |-> now,
                             allowed |-> out.result.allowed,
                             remaining |-> out.result.remaining,
                             resetTime |-> out.result.resetTime] >>
        /\ admitted' = IF out.result.allowed
                       THEN [admitted EXCEPT ![identifier] = Append(@, entry)]
                       ELSE admitted
        /\ UNCHANGED <<now, dbVars, dispatchVars, schedVars>>

CheckRateLimit(identifier, configType) ==
    /\ CheckRateLimitStep(identifier, configType)
    /\ UNCHANGED gate

\* setInterval sweep: delete every record whose resetTime has passed
Cleanup_atResetTime ==
    /\ \E k \in DOMAIN rateLimitStore : rateLimitStore[k].resetTime <= now
    /\ rateLimitStore' = [k \in {x \in DOMAIN rateLimitStore :
                                    ~(rateLimitStore[x].resetTime <= now)}
                            |-> rateLimitStore[k]]
    /\ lastResult' = << >>
    /\ UNCHANGED <<now, admitted, gate, dbVars, dispatchVars, schedVars>>

Cleanup ==
    /\ \E k \in DOMAIN rateLimitStore : rateLimitStore[k].resetTime < now
    /\ rateLimitStore' = [k \in {x \in DOMAIN rateLimitStore :
                                    ~(rateLimitStore[x].resetTime < now)}
                            |-> rateLimitStore[k]]
    /\ lastResult' = << >>
    /\ UNCHANGED <<now, admitted, gate, dbVars, dispatchVars, schedVars>>

\* The clock advances; the history keeps the allowed calls of the trailing window.
Tick ==
    /\ now < MaxTime
    /\ now' = now + 1
    /\ admitted' = [k \in Identifiers |->
                       SelectSeq(admitted[k], LAMBDA e : e.at > now' - WindowMs)]
    /\ lastResult' = << >>
    /\ UNCHANGED <<rateLimitStore, gate, dbVars, dispatchVars, schedVars>>

NextRL ==
    \/ \E k \in Identifiers, c \in ConfigTypes : CheckRateLimit(k, c)
    \/ Cleanup
    \/ Tick

(***************************************************************************)
(* Rate limiter: claims                                                    *)
(***************************************************************************)
MaxRequestsOf(configType) == RATE_LIMIT_CONFIGS[configType].maxRequests

\* the allowed calls of identifier k made after time t - WindowMs, oldest first
Trailing(k, t) == SelectSeq(admitted[k], LAMBDA e : e.at > t - WindowMs)

\* ... those among them admitted by the record that is in the store now
\* (the record's bookkeeping window: from its creation to its resetTime)
TrailingOfRecord(k, t) ==
    IF k \in DOMAIN rateLimitStore
    THEN SelectSeq(Trailing(k, t), LAMBDA e : e.epoch = rateLimitStore[k].resetTime)
    ELSE << >>

OfConfig(entries, configType) == SelectSeq(entries, LAMBDA e : e.cfg = configType)

C6_SlidingWindow ==
    \A k \in Identifiers, c \in ConfigTypes :
        Len(OfConfig(Trailing(k, now), c)) <= MaxRequestsOf(c)

C8_AllowedRemaining ==
    (lastResult # << >> /\ lastResult[1].allowed) =>
        LET r == lastResult[1]
            newCount == Len(TrailingOfRecord(r.key, r.at))
            stored == rateLimitStore[r.key].requestTimestamps
        IN  /\ stored # << >>
            /\ stored[Len(stored)] = r.at
            /\ Len(stored) = newCount
            /\ r.remaining = MaxRequestsOf(r.cfg) - newCount
            /\ 0 <= r.remaining
            /\ r.remaining < MaxRequestsOf(r.cfg)

\* an allowed call that used the last slot while older timestamps survive
C8_Witness ==
    /\ lastResult # << >>
    /\ lastResult[1].allowed
    /\ lastResult[1].remaining = 0
    /\ TrailingOfRecord(lastResult[1].key, now)[1].at < now

(***************************************************************************)
(* Orders, the EventDispatch ledger and the analytics dispatch             *)
(***************************************************************************)
\* the ledger and the dispatch are keyed by order: one order is followed
OrderIds == {1}
CustomerIds == {1}
EventNames == {"order_paid"}
Endpoints == {"ga4", "meta"}
Users == {"courier1", "courier2", "admin1"}
DispatchUsers == {"courier1", "admin1"}
Actions == {"start_delivery", "pause_delivery", "resume_delivery", "complete_delivery"}
NoCourier == "none"
NoDate == -1

\* user.role of the verified token
RoleOf(user) == IF user \in {"courier1", "courier2"} THEN "COURIER" ELSE "MIDDLE_ADMIN"

\* history counters count 0, 1, many
Saturate(n) == IF n < 2 THEN n + 1 ELSE 2

Max(S) == CHOOSE x \in S : \A y \in S : y <= x

\* const nextOrderNumber = lastOrder ? lastOrder.orderNumber + 1 : 1
NextOrderNumber_noIncrement(table) ==
    IF DOMAIN table = {} THEN 0
    ELSE Max({table[id].orderNumber : id \in DOMAIN table})

NextOrderNumber(table) ==
    IF DOMAIN table = {} THEN 1
    ELSE Max({table[id].orderNumber : id \in DOMAIN table}) + 1

\* orderNumber Int @unique
OrderNumberTaken_unchecked(table, number) == FALSE

OrderNumberTaken(table, number) ==
    \E id \in DOMAIN table : table[id].orderNumber = number

\* number.toString().padStart(2, '0'): the two digits of a number below 100
PadStart2(number) == <<number \div 10, number % 10>>

\* a delivery time 'hh:mm', kept as its four digits
FormatTime(hour, minute) == PadStart2(hour) \o PadStart2(minute)

\* deliveryTime || '12:00' of POST /api/orders, for a body without a time
DefaultDeliveryTime == FormatTime(12, 0)

\* the row db.order.create stores
NewOrderRow(number, customerId, date, time, paymentStatus, paymentMethod) ==
    [orderNumber |-> number, customerId |-> customerId, deliveryDate |-> date,
     deliveryTime |-> time,
     orderStatus |-> "PENDING", paymentStatus |-> paymentStatus,
     paymentMethod |-> paymentMethod, isPrepaid |-> FALSE,
     courierId |-> NoCourier, deliveredAt |-> NoDate]

TablePut(table, id, row) ==
    [k \in DOMAIN table \cup {id} |-> IF k = id THEN row ELSE table[k]]

\* ---- ledger (event-dispatch.ts) ----
LedgerKey(orderId, eventName) == <<orderId, eventName>>

\* hasDispatched: true iff findUnique returns a row; a failing read gives false
hasDispatched_offByOne(up, rows, orderId, eventName) ==
    up /\ rows[LedgerKey(orderId, eventName)] > 1

hasDispatched_never(up, rows, orderId, eventName) == FALSE

hasDispatched_failClosed(up, rows, orderId, eventName) ==
    ~up \/ rows[LedgerKey(orderId, eventName)] > 0

hasDispatched(up, rows, orderId, eventName) ==
    up /\ rows[LedgerKey(orderId, eventName)] > 0

\* composite unique (orderId, eventName)
UniqueViolation_unchecked(rows, key) == FALSE

UniqueViolation(rows, key) == rows[key] > 0

\* eventDispatch.create: inserts a row, or throws (unreachable table, P2002)
LedgerCreate(up, rows, key) ==
    IF up /\ ~UniqueViolation(rows, key)
    THEN [threw |-> FALSE, rows |-> [rows EXCEPT ![key] = Saturate(@)]]
    ELSE [threw |-> TRUE, rows |-> rows]

\* markDispatched: create inside try { } catch { }
markDispatched_noCatch(up, rows, orderId, eventName) ==
    LedgerCreate(up, rows, LedgerKey(orderId, eventName))

markDispatched(up, rows, orderId, eventName) ==
    [threw |-> FALSE,
     rows  |-> LedgerCreate(up, rows, LedgerKey(orderId, eventName)).rows]

\* ---- requests and tasks ----
\* the model keeps at most MaxReqs POST requests between their read of the
\* maximum order number and their insert
ReqRoom == BagCardinality(reqs) < MaxReqs

\* the model keeps at most MaxTasks dispatch tasks in flight
TaskRoom == BagCardinality(tasks) < MaxTasks

\* void (async () => { ... })(): the task runs up to its first await
SpawnDispatch(orderId) ==
    tasks (+) SetToBag({[pc |-> "check", orderId |-> orderId, pending |-> {}]})

TaskBecomes(task, next) == (tasks (-) SetToBag({task})) (+) SetToBag({next})

TaskEnds(task) == tasks (-) SetToBag({task})

\* await Promise.allSettled([...]): resumes when every endpoint call settled
AllSettled_any(pending) == Cardinality(pending) <= 1

AllSettled(pending) == pending = {}

\* void (async () => { try { ... } catch (err) { console.warn(...) } })():
\* fire-and-forget, what the task meets does not reach the handler's answer
FireAndForget_awaited(last, failed) ==
    IF failed /\ last # << >>
    THEN << [last[1] EXCEPT !.response = "error"] >> ELSE last

FireAndForget(last, failed) == last

\* the answers of the handlers after a step of a dispatch task
AfterTask(log, failed) ==
    [o \in DOMAIN log |-> [log[o] EXCEPT !.last = FireAndForget(@, failed)]]

\* shouldDispatch of the PATCH handler
ShouldDispatch_anyDelivered(order) ==
    \/ order.paymentStatus = "PAID"
    \/ order.orderStatus = "DELIVERED"

ShouldDispatch(order) ==
    \/ order.paymentStatus = "PAID"
    \/ (order.orderStatus = "DELIVERED" /\ order.paymentMethod = "CASH")

\* if (user.role !== 'COURIER') return ErrorResponses.forbidden(...)
RoleAllowed_staff(user) == RoleOf(user) \in {"COURIER", "MIDDLE_ADMIN"}

RoleAllowed(user) == RoleOf(user) = "COURIER"

\* the order.orderStatus tests of the cases; complete_delivery has none
StateAllowed_resumable(action, status) ==
    CASE action = "start_delivery"    -> status \in {"PENDING", "PAUSED"}
      [] action = "pause_delivery"    -> status = "IN_DELIVERY"
      [] action = "resume_delivery"   -> status = "PAUSED"
      [] action = "complete_delivery" -> TRUE

StateAllowed(action, status) ==
    CASE action = "start_delivery"    -> status = "PENDING"
      [] action = "pause_delivery"    -> status = "IN_DELIVERY"
      [] action = "resume_delivery"   -> status = "PAUSED"
      [] action = "complete_delivery" -> TRUE

\* the switch (action) of the PATCH handler: an error response, or updateData
PatchSwitch(action, user, order, t) ==
    IF ~RoleAllowed(user) THEN [error |-> "forbidden", updateData |-> << >>]
    ELSE IF ~StateAllowed(action, order.orderStatus)
    THEN [error |-> "invalidState", updateData |-> << >>]
    ELSE CASE action = "start_delivery" ->
                [error |-> "none",
                 updateData |-> [orderStatus |-> "IN_DELIVERY", courierId |-> user]]
           [] action = "pause_delivery" ->
                [error |-> "none", updateData |-> [orderStatus |-> "PAUSED"]]
           [] action = "resume_delivery" ->
                [error |-> "none", updateData |-> [orderStatus |-> "IN_DELIVERY"]]
           [] action = "complete_delivery" ->
                [error |-> "none",
                 updateData |-> [orderStatus |-> "DELIVERED", deliveredAt |-> t]]

\* db.order.update({ where: { id }, data: updateData })
ApplyUpdate_clearsCourier(row, updateData) ==
    [f \in DOMAIN row |-> IF f \in DOMAIN updateData THEN updateData[f]
                          ELSE IF f = "courierId" THEN NoCourier ELSE row[f]]

ApplyUpdate(row, updateData) ==
    [f \in DOMAIN row |-> IF f \in DOMAIN updateData THEN updateData[f] ELSE row[f]]

\* PATCH /api/orders/:orderId with the order row it read: the response, the
\* orders table after db.order.update and the tasks after the detached dispatch
PatchResult(table, user, orderId, action, snapshot, t) ==
    LET sw == PatchSwitch(action, user, snapshot, t)
    IN  IF sw.error # "none"
        THEN [response |-> sw.error, orders |-> table, spawn |-> FALSE]
        ELSE IF orderId \notin DOMAIN table
        THEN [response |-> "error", orders |-> table, spawn |-> FALSE]
        ELSE LET updatedOrder == ApplyUpdate(table[orderId], sw.updateData)
             IN  [response |-> "ok",
                  orders   |-> [table EXCEPT ![orderId] = updatedOrder],
                  spawn    |-> ShouldDispatch(updatedOrder)]

\* PATCH handler from the switch on the order row it read: update, the audit
\* entry, the detached dispatch task, the response
PatchCommit(user, orderId, action, snapshot) ==
    /\ LET out == PatchResult(orders, user, orderId, action, snapshot, clock)
       IN  /\ out.spawn => TaskRoom
           /\ orders' = out.orders
           /\ tasks' = IF out.spawn THEN SpawnDispatch(orderId) ELSE tasks
    /\ UNCHANGED <<schedVars, now, rateLimitStore, admitted, lastResult, clock, nextOrderId,
                   customers, numberLog, eventDispatch, ledgerUp, configured, received, reqs,
                   marks>>

\* PATCH handler, run without another request in between: findUnique, then
\* the rest
PatchStep(user, orderId, action) ==
    /\ orderId \in DOMAIN orders
    /\ PatchCommit(user, orderId, action, orders[orderId])

Patch(user, orderId, action) ==
    /\ PatchStep(user, orderId, action)
    /\ UNCHANGED <<patchLog, gate>>

\* the same handler, with the request, its answer and its effect recorded
PatchLogged(user, orderId, action) ==
    /\ PatchStep(user, orderId, action)
    /\ UNCHANGED gate
    /\ LET out == PatchResult(orders, user, orderId, action, orders[orderId], clock)
       IN  patchLog' = [patchLog EXCEPT ![orderId] =
              [inflight |-> @.inflight,
               audits  |-> @.audits,
               last    |-> << [user |-> user, action |-> action,
                               status |-> orders[orderId].orderStatus,
                               response |-> out.response,
                               changed |-> out.orders # orders,
                               spawned |-> BagCardinality(tasks') >
                                           BagCardinality(tasks)] >>,
               overlap |-> @.overlap \/
                           (out.spawn /\ \E t \in BagToSet(tasks) : t.orderId = orderId),
               paused  |-> @.paused \/ out.orders[orderId].orderStatus = "PAUSED"]]

\* the body of a PATCH request: { action } with an action of the schema, or
\* anything else
Bodies == Actions \cup {"other"}

\* validateRequest(UpdateOrderStatusSchema, body).success
ValidBody(body) == body \in Actions

\* await logDataOperation(request, AuditEventType.ORDER_UPDATED, ...) after
\* db.order.update: the entries of an order, counted 0, 1, many
LogOrderUpdated_onEntry(audits, response) == Saturate(audits)

LogOrderUpdated(audits, response) ==
    IF response = "ok" THEN Saturate(audits) ELSE audits

\* the whole PATCH handler for a verified user, run without another request
\* in between: validation, findUnique, the switch, update, audit entry,
\* dispatch task; the request, its answer and the audit entries are recorded
PatchRequest(user, orderId, body) ==
    LET rejected(response) ==
            /\ patchLog' = [patchLog EXCEPT ![orderId].last =
                   << [user |-> user, action |-> body, status |-> "none",
                       response |-> response, changed |-> FALSE,
                       spawned |-> FALSE] >>,
                   ![orderId].audits = LogOrderUpdated(@, response)]
            /\ UNCHANGED <<rlVars, dbVars, schedVars, eventDispatch, ledgerUp,
                           configured, received, reqs, tasks, marks>>
    IN  IF ~ValidBody(body) THEN rejected("validation")
        ELSE IF orderId \notin DOMAIN orders THEN rejected("notFound")
        ELSE /\ PatchStep(user, orderId, body)
             /\ UNCHANGED gate
             /\ LET out == PatchResult(orders, user, orderId, body, orders[orderId], clock)
                IN  patchLog' = [patchLog EXCEPT
                       ![orderId].last =
                           << [user |-> user, action |-> body,
                               status |-> orders[orderId].orderStatus,
                               response |-> out.response,
                               changed |-> out.orders # orders,
                               spawned |-> BagCardinality(tasks') >
                                           BagCardinality(tasks)] >>,
                       ![orderId].audits = LogOrderUpdated(@, out.response)]

\* PATCH up to await db.order.findUnique: the request holds the row it read.
\* The model keeps at most MaxPatches requests of an order at this point.
PatchRead(user, orderId, action) ==
    /\ orderId \in DOMAIN orders
    /\ Cardinality(patchLog[orderId].inflight) < MaxPatches
    /\ patchLog' = [patchLog EXCEPT ![orderId].inflight =
                      @ \cup {[user |-> user, action |-> action,
                               snapshot |-> orders[orderId]]}]
    /\ UNCHANGED <<rlVars, dbVars, schedVars, eventDispatch, ledgerUp, configured, received,
                   reqs, tasks, marks>>

\* ... and from there on: the switch on the row read, db.order.update
PatchWrite(orderId, req) ==
    /\ req \in patchLog[orderId].inflight
    /\ PatchCommit(req.user, orderId, req.action, req.snapshot)
    /\ patchLog' = [patchLog EXCEPT ![orderId].inflight = @ \ {req}]
    /\ UNCHANGED gate

\* POST /api/orders, run without another request in between: the customer
\* lookup, max order number + 1, create, the audit entry, the dispatch task
\* when the order is created PAID, the response
PostStep(user, customerId, paymentStatus, paymentMethod) ==
    /\ customerId \in DOMAIN customers
    /\ nextOrderId \in OrderIds
    /\ paymentStatus = "PAID" => TaskRoom
    /\ orders' = TablePut(orders, nextOrderId,
                    NewOrderRow(NextOrderNumber(orders), customerId, NoDate, DefaultDeliveryTime,
                                paymentStatus, paymentMethod))
    /\ nextOrderId' = nextOrderId + 1
    /\ numberLog' = Append(numberLog, NextOrderNumber(orders))
    /\ tasks' = IF paymentStatus = "PAID" THEN SpawnDispatch(nextOrderId) ELSE tasks
    /\ UNCHANGED <<schedVars, now, rateLimitStore, admitted, lastResult, clock, customers,
                   eventDispatch, ledgerUp, configured, received, reqs, marks, patchLog>>

Post(user, customerId, paymentStatus, paymentMethod) ==
    /\ PostStep(user, customerId, paymentStatus, paymentMethod)
    /\ UNCHANGED gate

\* ---- middleware in front of the route handlers ----
\* Math.ceil(ms / 1000), with the scaled second
ToSeconds(ms) == (ms + MsPerSecond - 1) \div MsPerSecond

\* if (!allowed) return createRateLimitResponse(...)
Admits_always(result) == TRUE

Admits(result) == result.allowed

\* createRateLimitResponse(message, resetTime, maxRequests)
createRateLimitResponse(resetTime, maxRequests, t) ==
    LET retryAfter == ToSeconds(resetTime - t)
    IN  [status |-> 429, handled |-> FALSE,
         retryAfter |-> IF retryAfter > 0 THEN retryAfter ELSE 0,
         limit |-> maxRequests, remaining |-> 0, reset |-> ToSeconds(resetTime)]

\* addRateLimitHeaders(response, remaining, resetTime, maxRequests)
addRateLimitHeaders(response, remaining, resetTime, maxRequests) ==
    [status |-> response.status, handled |-> response.handled, retryAfter |-> 0,
     limit |-> maxRequests, remaining |-> remaining, reset |-> ToSeconds(resetTime)]

\* the status of a handler's response
StatusOf(response) ==
    CASE response = "ok"           -> 200
      [] response = "forbidden"    -> 403
      [] response = "invalidState" -> 400
      [] OTHER                     -> 500

\* middleware(req) for a request to /api/orders...: validateRequest, then
\* checkRateLimit with RATE_LIMIT_CONFIGS.api; a denied request is answered
\* 429, an admitted one goes on with NextResponse.next() and the rate limit
\* headers.  The model keeps one request between middleware and handler.
Middleware(identifier, valid) ==
    /\ gate.waiting = << >>
    /\ IF ~valid
       THEN /\ gate' = [gate EXCEPT !.last = << [status |-> 400, handled |-> FALSE,
                                                 retryAfter |-> 0, limit |-> 0,
                                                 remaining |-> 0, reset |-> 0] >>]
            /\ UNCHANGED <<now, rateLimitStore, admitted, lastResult, dbVars, dispatchVars,
                           schedVars>>
       ELSE LET config == RATE_LIMIT_CONFIGS["api"]
                result == checkRateLimit(rateLimitStore, identifier, config, now).result
            IN  /\ CheckRateLimitStep(identifier, "api")
                /\ gate' = IF ~Admits(result)
                           THEN [gate EXCEPT !.last =
                                   << createRateLimitResponse(result.resetTime,
                                                              config.maxRequests, now) >>]
                           ELSE [gate EXCEPT !.waiting =
                                   << [remaining |-> result.remaining,
                                       resetTime |-> result.resetTime,
                                       limit |-> config.maxRequests] >>]

\* the response of the route handler with the headers of the middleware
Respond(response) ==
    LET w == gate.waiting[1]
    IN  [waiting |-> << >>,
         last |-> << addRateLimitHeaders([status |-> StatusOf(response), handled |-> TRUE],
                                         w.remaining, w.resetTime, w.limit) >>]

\* PATCH /api/orders/:orderId behind the middleware
PatchGated(user, orderId, action) ==
    /\ gate.waiting # << >>
    /\ PatchStep(user, orderId, action)
    /\ gate' = Respond(PatchResult(orders, user, orderId, action, orders[orderId],
                                   clock).response)
    /\ UNCHANGED patchLog

\* POST /api/orders behind the middleware
PostGated(user, customerId, paymentStatus, paymentMethod) ==
    /\ gate.waiting # << >>
    /\ PostStep(user, customerId, paymentStatus, paymentMethod)
    /\ gate' = Respond("ok")

\* task: const already = await hasDispatched(order.id, 'order_paid'); when not
\* dispatched, Promise.allSettled starts both endpoint calls (an unconfigured
\* endpoint returns at once)
TaskCheck(task) ==
    /\ BagIn(task, tasks)
    /\ task.pc = "check"
    /\ LET already == hasDispatched(ledgerUp, eventDispatch, task.orderId, "order_paid")
       IN  /\ tasks' = IF already
                       THEN TaskEnds(task)
                       ELSE TaskBecomes(task, [task EXCEPT !.pc = "send",
                                  !.pending = {e \in Endpoints : configured[e]}])
           /\ marks' = [marks EXCEPT ![task.orderId].skipped = @ \/ already,
                                      ![task.orderId].unread = @ \/ ~ledgerUp]
    /\ patchLog' = AfterTask(patchLog, ~ledgerUp)
    /\ UNCHANGED <<schedVars, rlVars, dbVars, eventDispatch, ledgerUp, configured, received,
                   reqs>>

\* task: the fetch of one endpoint settles; a network failure rejects
EndpointSettles(task, e, reached) ==
    /\ BagIn(task, tasks)
    /\ task.pc = "send"
    /\ e \in task.pending
    /\ tasks' = TaskBecomes(task, [task EXCEPT !.pending = @ \ {e}])
    /\ received' = IF reached
                   THEN [received EXCEPT ![e][task.orderId] = Saturate(@)]
                   ELSE received
    /\ patchLog' = AfterTask(patchLog, ~reached)
    /\ UNCHANGED <<schedVars, rlVars, dbVars, eventDispatch, ledgerUp, configured, reqs, marks>>

\* task: await markDispatched(order.id, 'order_paid') after allSettled
TaskMark(task) ==
    /\ BagIn(task, tasks)
    /\ task.pc = "send"
    /\ AllSettled(task.pending)
    /\ LET o   == task.orderId
           out == markDispatched(ledgerUp, eventDispatch, o, "order_paid")
       IN  /\ eventDispatch' = out.rows
           /\ marks' = [marks EXCEPT ![o] =
                          [@ EXCEPT !.calls   = Saturate(@),
                                    !.reached = @ \/ ledgerUp,
                                    !.threw   = @ \/ out.threw]]
           /\ patchLog' = AfterTask(patchLog,
                  LedgerCreate(ledgerUp, eventDispatch, LedgerKey(o, "order_paid")).threw)
    /\ tasks' = TaskEnds(task)
    /\ UNCHANGED <<schedVars, rlVars, dbVars, ledgerUp, configured, received, reqs>>

\* the EventDispatch table becomes unreachable, or reachable again
LedgerFlip ==
    /\ ledgerUp' = ~ledgerUp
    /\ UNCHANGED <<schedVars, rlVars, dbVars, eventDispatch, configured, received, reqs, tasks,
                   marks, patchLog>>

CustomerRow(createdAt, orderPattern) ==
    [isActive |-> TRUE, createdAt |-> createdAt, updatedAt |-> createdAt,
     orderPattern |-> orderPattern]

InitDb ==
    /\ clock = 0
    /\ orders = << >>
    /\ nextOrderId = 1
    /\ numberLog = << >>
    /\ customers = [c \in CustomerIds |-> CustomerRow(0, "daily")]

\* an empty, reachable ledger, no request and no task in flight
InitLedger ==
    /\ eventDispatch = [k \in OrderIds \X EventNames |-> 0]
    /\ ledgerUp = TRUE
    /\ received = [e \in Endpoints |-> [o \in OrderIds |-> 0]]
    /\ reqs = EmptyBag
    /\ tasks = EmptyBag
    /\ marks = [o \in OrderIds |-> [calls |-> 0, reached |-> FALSE, threw |-> FALSE,
                                    skipped |-> FALSE, unread |-> FALSE]]
    /\ patchLog = [o \in OrderIds |-> [last |-> << >>, overlap |-> FALSE,
                                       paused |-> FALSE, inflight |-> {},
                                       audits |-> 0]]

\* both endpoints configured (GA4_ and META_ variables set)
InitDispatch ==
    /\ InitLedger
    /\ configured = [e \in Endpoints |-> TRUE]

\* any setting of the endpoints' environment variables
InitDispatchAny ==
    /\ InitLedger
    /\ configured \in [Endpoints -> BOOLEAN]

NextDispatch ==
    \/ \E u \in DispatchUsers, o \in OrderIds, a \in Actions : Patch(u, o, a)
    \/ \E u \in DispatchUsers, c \in CustomerIds,
          p \in {"PAID", "UNPAID"}, m \in {"CARD", "CASH"} : Post(u, c, p, m)
    \/ \E task \in BagToSet(tasks) : TaskCheck(task)
    \/ \E task \in BagToSet(tasks), e \in Endpoints, reached \in BOOLEAN :
          EndpointSettles(task, e, reached)
    \/ \E task \in BagToSet(tasks) : TaskMark(task)
    \/ LedgerFlip

\* a day passes
DayTick ==
    /\ clock < MaxDay
    /\ clock' = clock + 1
    /\ UNCHANGED <<rlVars, orders, nextOrderId, customers, numberLog, dispatchVars,
                   schedVars>>

\* the order lifecycle: creations, PATCH requests of couriers and admins and
\* their dispatch tasks; the ledger table stays reachable
NextLifecycle ==
    \/ \E u \in DispatchUsers, o \in OrderIds, a \in Actions : PatchLogged(u, o, a)
    \/ \E u \in DispatchUsers, c \in CustomerIds,
          p \in {"PAID", "UNPAID"}, m \in {"CARD", "CASH"} : Post(u, c, p, m)
    \/ \E task \in BagToSet(tasks) : TaskCheck(task)
    \/ \E task \in BagToSet(tasks), e \in Endpoints, reached \in BOOLEAN :
          EndpointSettles(task, e, reached)
    \/ \E task \in BagToSet(tasks) : TaskMark(task)

\* a courier's PATCH requests on an order created unpaid with CASH or paid by
\* CARD, answers recorded, and the dispatch tasks with a ledger that is
\* reachable or not
NextAnswers ==
    \/ \E o \in OrderIds, a \in Actions : PatchLogged("courier1", o, a)
    \/ \E c \in CustomerIds, pm \in {<<"PAID", "CARD">>, <<"UNPAID", "CASH">>} :
          Post("admin1", c, pm[1], pm[2])
    \/ \E task \in BagToSet(tasks) : TaskCheck(task)
    \/ \E task \in BagToSet(tasks), e \in Endpoints, reached \in BOOLEAN :
          EndpointSettles(task, e, reached)
    \/ \E task \in BagToSet(tasks) : TaskMark(task)
    \/ LedgerFlip

\* requests to the order endpoints through the middleware, for orders that
\* need no dispatch, while time passes
NextGate ==
    \/ \E k \in Identifiers, valid \in BOOLEAN : Middleware(k, valid)
    \/ \E u \in DispatchUsers, o \in OrderIds, a \in Actions : PatchGated(u, o, a)
    \/ \E c \in CustomerIds : PostGated("admin1", c, "UNPAID", "CARD")
    \/ Tick

\* PATCH requests of two couriers on an order that needs no dispatch, each
\* request in two steps: its read of the order, then its update
NextRace ==
    \/ \E c \in CustomerIds : Post("admin1", c, "UNPAID", "CARD")
    \/ \E u \in {"courier1", "courier2"}, o \in OrderIds, a \in Actions : PatchRead(u, o, a)
    \/ \E o \in OrderIds : \E req \in patchLog[o].inflight : PatchWrite(o, req)

\* the order lifecycle over several days
NextLifecycleDays ==
    \/ NextLifecycle
    \/ DayTick

(***************************************************************************)
(* Auto-order scheduler (server.ts), manual creation racing with it, and   *)
(* bulk client deletion                                                    *)
(***************************************************************************)
SchedCustomerIds == {1, 2}
Patterns == {"daily", "every_other_day_even", "every_other_day_odd", "none"}

\* has30DaysPassed: Math.floor((now - date) / day) >= 30, time counted in days
has30DaysPassed(date, t) == t - date >= EligibilityDays

\* isEligible = daysSinceCreation || daysSinceLastCheck
IsEligible(client, t) ==
    has30DaysPassed(client.createdAt, t) \/ has30DaysPassed(client.updatedAt, t)

\* findMany({ where: { isActive: true } }).filter(isEligible)
EligibleClients_anyStatus(table, t) ==
    {c \in DOMAIN table : IsEligible(table[c], t)}

EligibleClients(table, t) ==
    {c \in DOMAIN table : table[c].isActive /\ IsEligible(table[c], t)}

\* getDayOfWeek(date): index of the weekday
getDayOfWeek(date) == date % 7

\* deliveryDays of the run: all false, all true when orderPattern === 'daily'
DeliveryDays_defaultDaily(orderPattern) ==
    [d \in 0..6 |-> orderPattern \in {"daily", "none"}]

DeliveryDays(orderPattern) == [d \in 0..6 |-> orderPattern = "daily"]

\* the first date in from..endDate whose weekday is selected, endDate + 1 if none
RECURSIVE NextDeliveryDate(_, _, _)
NextDeliveryDate(deliveryDays, from, endDate) ==
    IF from > endDate THEN endDate + 1
    ELSE IF deliveryDays[getDayOfWeek(from)] THEN from
    ELSE NextDeliveryDate(deliveryDays, from + 1, endDate)

RECURSIVE SetToSeq(_)
SetToSeq(S) ==
    IF S = {} THEN << >>
    ELSE LET m == CHOOSE x \in S : \A y \in S : x <= y
         IN  <<m>> \o SetToSeq(S \ {m})

\* the highest order number stored (findFirst orderBy orderNumber desc), 0 if none
MaxOrderNumber(table) ==
    IF DOMAIN table = {} THEN 0
    ELSE Max({table[id].orderNumber : id \in DOMAIN table})

\* a run; todo, done, hit, touched, ordered, alone, base and nums are its
\* history: the clients it selected, those it is through with, those with a
\* failure, those whose last check it updated, those it created orders for,
\* whether no other creator or deletion acted since its start, the maximum
\* order number at its start and the numbers of the orders it created
NewRun ==
    [pc |-> "client", today |-> 0, queue |-> << >>, client |-> 0, days |-> "none",
     date |-> 0, num |-> 0, generated |-> FALSE,
     todo |-> {}, done |-> {}, hit |-> {}, touched |-> {}, ordered |-> {},
     alone |-> TRUE, base |-> 0, nums |-> << >>]

\* gaps of EligibilityDays or more are all recorded as EligibilityDays
NoGap == EligibilityDays

\* the model keeps at most MaxRuns scheduler runs in flight
RunRoom == BagCardinality(runs) < MaxRuns

RunBecomes(run, next) == (runs (-) SetToBag({run})) (+) SetToBag({next})

\* another creator or a deletion changed the orders table under the runs
Disturbed(bag) == BagOfAll(LAMBDA r : [r EXCEPT !.alone = FALSE], bag)

\* a timer fires: runAutoOrderScheduler loads the active customers and filters
\* the eligible ones (it returns at once when there is none)
RunBegin ==
    /\ EligibleClients(customers, clock) # {}
    /\ runs' = runs (+) SetToBag({[NewRun EXCEPT !.today = clock,
                        !.queue = SetToSeq(EligibleClients(customers, clock)),
                        !.todo = EligibleClients(customers, clock),
                        !.base = MaxOrderNumber(orders)]})
    /\ UNCHANGED <<rlVars, dbVars, dispatchVars, genLog, dupRejected, runLog>>

RunStart ==
    /\ RunRoom
    /\ RunBegin

\* the timer fires while no earlier run is in progress
RunStartAlone ==
    /\ runs = EmptyBag
    /\ RunStart

\* for (const client of eligibleClients): resolve the pattern, then
\* createAutoOrdersForClient up to its customer lookup
ClientBegin(run) ==
    /\ BagIn(run, runs)
    /\ run.pc = "client"
    /\ LET client == Head(run.queue)
           days   == DeliveryDays(customers[client].orderPattern)
           first  == NextDeliveryDate(days, run.today, run.today + HorizonDays)
       IN  runs' = RunBecomes(run,
                      IF client \notin DOMAIN customers
                      THEN [run EXCEPT !.pc = "touch", !.client = client,
                                       !.queue = Tail(run.queue),
                                       !.hit = @ \cup {client}]
                      ELSE IF first > run.today + HorizonDays
                      THEN [run EXCEPT !.pc = "touch", !.client = client,
                                       !.queue = Tail(run.queue)]
                      ELSE [run EXCEPT !.pc = "max", !.client = client,
                                       !.queue = Tail(run.queue),
                                       !.days = customers[client].orderPattern,
                                       !.date = first])
    /\ UNCHANGED <<rlVars, dbVars, dispatchVars, genLog, dupRejected, runLog>>

\* await db.order.findFirst({ orderBy: { orderNumber: 'desc' } })
ReadMax(run) ==
    /\ BagIn(run, runs)
    /\ run.pc = "max"
    /\ runs' = RunBecomes(run, [run EXCEPT !.pc = "insert",
                                           !.num = NextOrderNumber(orders)])
    /\ UNCHANGED <<rlVars, dbVars, dispatchVars, genLog, dupRejected, runLog>>

\* Math.random() takes the values k / RandomSteps, k in 0..RandomSteps - 1
RandomSteps == 4

Random == 0..(RandomSteps - 1)

\* Math.floor(Math.random() * n) for Math.random() = k / RandomSteps
FloorRandom(k, n) == (k * n) \div RandomSteps

\* generateDeliveryTime: hour = 11 + Math.floor(Math.random() * 3), minute =
\* Math.floor(Math.random() * 60), both padded to two digits
generateDeliveryTime_fourHours(randomHour, randomMinute) ==
    FormatTime(11 + FloorRandom(randomHour, 4), FloorRandom(randomMinute, 60))

generateDeliveryTime(randomHour, randomMinute) ==
    FormatTime(11 + FloorRandom(randomHour, 3), FloorRandom(randomMinute, 60))

\* await db.order.create(...) inside try/catch, then the loop moves on to the
\* next selected date; randomHour and randomMinute are the two values of
\* Math.random() in generateDeliveryTime
InsertOrderWith(run, randomHour, randomMinute) ==
    /\ BagIn(run, runs)
    /\ run.pc = "insert"
    /\ LET endDate == run.today + HorizonDays
           next   == NextDeliveryDate(DeliveryDays(run.days), run.date + 1, endDate)
           moved(generated) ==
               IF next > endDate
               THEN [run EXCEPT !.pc = "touch", !.date = 0, !.num = 0,
                                !.days = "none", !.generated = FALSE]
               ELSE [run EXCEPT !.pc = "max", !.date = next, !.num = 0,
                                !.generated = generated]
           fails  == OrderNumberTaken(orders, run.num) \/ run.client \notin DOMAIN customers
           gap    == run.today - genLog[run.client].last
       IN  IF fails
           THEN /\ runs' = RunBecomes(run, [moved(run.generated) EXCEPT
                                               !.hit = @ \cup {run.client}])
                /\ dupRejected' = (dupRejected \/ OrderNumberTaken(orders, run.num))
                /\ UNCHANGED <<orders, nextOrderId, numberLog, genLog>>
           ELSE /\ nextOrderId <= MaxSchedOrders
                /\ orders' = TablePut(orders, nextOrderId,
                                NewOrderRow(run.num, run.client, run.date,
                                    generateDeliveryTime(randomHour, randomMinute),
                                    "UNPAID", "CASH"))
                /\ nextOrderId' = nextOrderId + 1
                /\ numberLog' = Append(numberLog, run.num)
                /\ runs' = Disturbed(runs (-) SetToBag({run}))
                              (+) SetToBag({[moved(TRUE) EXCEPT
                                                !.nums = Append(@, run.num),
                                                !.ordered = @ \cup {run.client}]})
                /\ genLog' = IF run.generated THEN genLog
                             ELSE [genLog EXCEPT ![run.client] =
                                     [last   |-> run.today,
                                      minGap |-> IF @.last >= 0 /\ gap < @.minGap
                                                 THEN gap ELSE @.minGap]]
                /\ UNCHANGED dupRejected
    /\ UNCHANGED <<rlVars, clock, customers, dispatchVars, runLog>>

\* an insertion whose delivery time is not followed: both draws are 0
InsertOrder(run) == InsertOrderWith(run, 0, 0)

\* an insertion with any delivery time
InsertOrderAnyTime(run) ==
    \E randomHour, randomMinute \in Random :
        InsertOrderWith(run, randomHour, randomMinute)

\* each failure of a client is caught inside createAutoOrdersForClient and
\* updateClientLastCheck: the for loop goes on with the clients that are left
QueueAfter_uncaught(queue, failed) == IF failed THEN << >> ELSE queue

QueueAfter(queue, failed) == queue

\* updateClientLastCheck: db.customer.update({ where: { id }, data:
\* { updatedAt: new Date() } }) inside try { } catch; a missing row is an
\* error that is logged
updateClientLastCheck_skipped(table, clientId, t) == table

updateClientLastCheck_deactivates(table, clientId, t) ==
    IF clientId \in DOMAIN table
    THEN [table EXCEPT ![clientId].updatedAt = t, ![clientId].isActive = FALSE]
    ELSE table

updateClientLastCheck(table, clientId, t) ==
    IF clientId \in DOMAIN table
    THEN [table EXCEPT ![clientId].updatedAt = t]
    ELSE table

\* await updateClientLastCheck(client.id) after createAutoOrdersForClient,
\* then the next client or the end of the run
TouchClient(run) ==
    /\ BagIn(run, runs)
    /\ run.pc = "touch"
    /\ customers' = updateClientLastCheck(customers, run.client, clock)
    /\ LET hit   == IF run.client \in DOMAIN customers THEN run.hit
                    ELSE run.hit \cup {run.client}
           rest  == QueueAfter(run.queue, run.client \in hit)
           after == [run EXCEPT !.pc = "client", !.client = 0, !.queue = rest,
                                !.hit = hit, !.done = @ \cup {run.client},
                                !.touched = IF run.client \in DOMAIN customers
                                            THEN @ \cup {run.client} ELSE @]
       IN  IF rest = << >>
           THEN /\ runs' = runs (-) SetToBag({run})
                /\ runLog' = << [todo |-> after.todo, done |-> after.done,
                                 hit |-> after.hit, touched |-> after.touched,
                                 ordered |-> after.ordered] >>
           ELSE /\ runs' = RunBecomes(run, after)
                /\ UNCHANGED runLog
    /\ UNCHANGED <<rlVars, clock, orders, nextOrderId, numberLog, dispatchVars,
                   genLog, dupRejected>>

\* POST /api/orders up to await db.order.findFirst (the maximum order number)
PostRead(customerId) ==
    /\ ReqRoom
    /\ customerId \in DOMAIN customers
    /\ reqs' = reqs (+) SetToBag({[cust |-> customerId, pay |-> "UNPAID",
                                   meth |-> "CASH", num |-> NextOrderNumber(orders)]})
    /\ UNCHANGED <<rlVars, dbVars, eventDispatch, ledgerUp, configured, received,
                   tasks, marks, patchLog, schedVars>>

\* POST /api/orders from await db.order.create on; a rejected insert is
\* answered by handleError
PostCreate(req) ==
    /\ BagIn(req, reqs)
    /\ IF OrderNumberTaken(orders, req.num) \/ req.cust \notin DOMAIN customers
       THEN /\ dupRejected' = (dupRejected \/ OrderNumberTaken(orders, req.num))
            /\ UNCHANGED <<orders, nextOrderId, numberLog, runs>>
       ELSE /\ nextOrderId <= MaxSchedOrders
            /\ orders' = TablePut(orders, nextOrderId,
                            NewOrderRow(req.num, req.cust, NoDate, DefaultDeliveryTime,
                                        req.pay, req.meth))
            /\ nextOrderId' = nextOrderId + 1
            /\ numberLog' = Append(numberLog, req.num)
            /\ runs' = Disturbed(runs)
            /\ UNCHANGED dupRejected
    /\ reqs' = reqs (-) SetToBag({req})
    /\ UNCHANGED <<rlVars, clock, customers, eventDispatch, ledgerUp, configured,
                   received, tasks, marks, patchLog, genLog, runLog>>

\* DELETE (bulk client deletion) for one client id with deleteOrders = true:
\* db.order.deleteMany({ where: { customerId } }), db.customer.delete
DeleteClient(customerId) ==
    /\ customerId \in DOMAIN customers
    /\ orders' = [id \in {x \in DOMAIN orders : orders[x].customerId # customerId}
                    |-> orders[id]]
    /\ customers' = [c \in DOMAIN customers \ {customerId} |-> customers[c]]
    /\ runs' = Disturbed(runs)
    /\ UNCHANGED <<rlVars, clock, nextOrderId, numberLog, dispatchVars, genLog,
                   dupRejected, runLog>>

InitSchedDb ==
    /\ clock = 0
    /\ orders = << >>
    /\ nextOrderId = 1
    /\ numberLog = << >>
    /\ customers = [c \in SchedCustomerIds |->
                      CustomerRow(0, IF c = 1 THEN "daily" ELSE "every_other_day_even")]

\* the day after the eligibility period of two customers created on day 0:
\* a daily one, and one that is daily, every-other-day, without a pattern,
\* deactivated, or was created only today
InitRunsDb ==
    /\ clock = EligibilityDays + 1
    /\ orders = << >>
    /\ nextOrderId = 1
    /\ numberLog = << >>
    /\ customers \in {[c \in SchedCustomerIds |-> IF c = 1 THEN CustomerRow(0, "daily") ELSE row] :
                        row \in {CustomerRow(0, "daily"),
                                 CustomerRow(0, "every_other_day_even"),
                                 CustomerRow(0, "none"),
                                 [CustomerRow(0, "daily") EXCEPT !.isActive = FALSE],
                                 CustomerRow(EligibilityDays + 1, "daily")}}

\* one daily customer whose eligibility period has just passed
InitNumberingDb ==
    /\ clock = EligibilityDays
    /\ orders = << >>
    /\ nextOrderId = 1
    /\ numberLog = << >>
    /\ customers = [c \in {1} |-> CustomerRow(0, "daily")]

InitSched ==
    /\ runs = EmptyBag
    /\ genLog = [c \in SchedCustomerIds |-> [last |-> -1, minGap |-> NoGap]]
    /\ dupRejected = FALSE
    /\ runLog = << >>

\* scheduler runs, manual creations and client deletions within one day
NextNumbering ==
    \/ RunStart
    \/ \E run \in BagToSet(runs) : ClientBegin(run)
    \/ \E run \in BagToSet(runs) : ReadMax(run)
    \/ \E run \in BagToSet(runs) : InsertOrder(run)
    \/ \E run \in BagToSet(runs) : TouchClient(run)
    \/ \E c \in SchedCustomerIds : PostRead(c)
    \/ \E req \in BagToSet(reqs) : PostCreate(req)
    \/ \E c \in SchedCustomerIds : DeleteClient(c)

NextSched ==
    \/ NextNumbering
    \/ DayTick

\* scheduler runs that do not overlap one another, manual creations for
\* customer 1, client deletions
NextRuns ==
    \/ RunStartAlone
    \/ \E run \in BagToSet(runs) : ClientBegin(run)
    \/ \E run \in BagToSet(runs) : ReadMax(run)
    \/ \E run \in BagToSet(runs) : InsertOrder(run)
    \/ \E run \in BagToSet(runs) : TouchClient(run)
    \/ PostRead(1)
    \/ \E req \in BagToSet(reqs) : PostCreate(req)
    \/ \E c \in SchedCustomerIds : DeleteClient(c)

(***************************************************************************)
(* Specifications                                                          *)
(***************************************************************************)
\* the state after start-up: empty limiter store, one customer, no orders,
\* empty ledger, no scheduler run
Init == InitRL /\ InitDb /\ InitDispatch /\ InitSched

\* start-up of the scheduler model: two customers created on day 0
InitScheduler == InitRL /\ InitSchedDb /\ InitDispatch /\ InitSched

\* start-up of the numbering model: one customer, already eligible
InitNumbering == InitRL /\ InitNumberingDb /\ InitDispatch /\ InitSched

SpecRL == Init /\ [][NextRL]_vars

SpecDispatch == Init /\ [][NextDispatch]_vars

SpecLifecycle == Init /\ [][NextLifecycle]_vars

SpecLifecycleDays == Init /\ [][NextLifecycleDays]_vars

SpecSched == InitScheduler /\ [][NextSched]_vars

SpecNumbering == InitNumbering /\ [][NextNumbering]_vars

\* start-up with any endpoint configuration
InitTasks == InitRL /\ InitDb /\ InitDispatchAny /\ InitSched

SpecTasks == InitTasks /\ [][NextDispatch]_vars

SpecAnswers == Init /\ [][NextAnswers]_vars

SpecGate == Init /\ [][NextGate]_vars

SpecRace == Init /\ [][NextRace]_vars

\* start-up of the runs model
InitRuns == InitRL /\ InitRunsDb /\ InitDispatch /\ InitSched

SpecRuns == InitRuns /\ [][NextRuns]_vars

(***************************************************************************)
(* Ledger and dispatch: claims                                             *)
(***************************************************************************)
LedgerRows(orderId, eventName) == eventDispatch[LedgerKey(orderId, eventName)]

\* C1: each analytics endpoint receives at most one order_paid call per order,
\* whatever the interleaving of transitions, PAID creations, replays and
\* overlapping dispatch tasks.
C1_AtMostOnceDispatch ==
    \A e \in Endpoints, o \in OrderIds : received[e][o] <= 1

\* C9 (as stated): once markDispatched has been called for a pair (N >= 1
\* calls, possibly concurrent), exactly one record is persisted and no call threw.
C9_ExactlyOneRecord ==
    \A o \in OrderIds, n \in EventNames :
        marks[o].calls >= 1 => (LedgerRows(o, n) = 1 /\ ~marks[o].threw)

\* C9 (amended): N >= 1 markDispatched calls for a pair leave at most one
\* record, exactly one when the ledger table was reachable for at least one of
\* the calls, and no call throws.
C9_AtMostOneRecord ==
    \A o \in OrderIds, n \in EventNames :
        marks[o].calls >= 1 =>
            /\ LedgerRows(o, n) <= 1
            /\ marks[o].reached => LedgerRows(o, n) = 1
            /\ ~marks[o].threw

\* two markDispatched calls for the same pair completed and one record exists
C9_Witness ==
    \E o \in OrderIds : marks[o].calls >= 2 /\ LedgerRows(o, "order_paid") = 1

\* C10: at most one record per (order, event) ever exists, and once
\* hasDispatched is true for a pair it is true in every later state in which
\* the ledger is reachable: records are created, never updated or deleted.
C10_LedgerMonotonic ==
    /\ [](\A o \in OrderIds, n \in EventNames : LedgerRows(o, n) <= 1)
    /\ [][\A o \in OrderIds, n \in EventNames :
            (hasDispatched(ledgerUp, eventDispatch, o, n) /\ ledgerUp')
                => hasDispatched(ledgerUp', eventDispatch', o, n)]_vars

\* a dispatch task was told "already dispatched" and the record is still there
C10_Witness ==
    \E o \in OrderIds :
        /\ marks[o].skipped
        /\ marks[o].calls >= 1
        /\ hasDispatched(ledgerUp, eventDispatch, o, "order_paid")

(***************************************************************************)
(* Order lifecycle: claims                                                 *)
(***************************************************************************)
TasksOf(orderId) == {t \in BagToSet(tasks) : t.orderId = orderId}

\* C11: for an order with paymentMethod CASH (not paid at creation) whose
\* requests do not overlap a running dispatch, driven through any lifecycle
\* path, exactly one order_paid dispatch attempt occurs, at the completion, and
\* a replayed complete_delivery adds no attempt and no external call.
C11_SingleDispatchForCash ==
    \A o \in DOMAIN orders :
        (/\ orders[o].paymentMethod = "CASH"
         /\ orders[o].paymentStatus = "UNPAID"
         /\ ~patchLog[o].overlap)
        => /\ marks[o].calls <= 1
           /\ \A e \in Endpoints : received[e][o] <= 1
           /\ marks[o].calls >= 1 => orders[o].orderStatus = "DELIVERED"
           /\ (orders[o].orderStatus = "DELIVERED" /\ TasksOf(o) = {})
                 => marks[o].calls = 1

\* the order went through PAUSED, was delivered and dispatched once, and the
\* dispatch task of a replayed complete_delivery found it already dispatched
C11_Witness ==
    \E o \in DOMAIN orders :
        /\ orders[o].paymentMethod = "CASH"
        /\ orders[o].paymentStatus = "UNPAID"
        /\ orders[o].orderStatus = "DELIVERED"
        /\ patchLog[o].paused
        /\ ~patchLog[o].overlap
        /\ patchLog[o].last # << >>
        /\ patchLog[o].last[1].action = "complete_delivery"
        /\ patchLog[o].last[1].status = "DELIVERED"
        /\ marks[o].skipped
        /\ marks[o].calls = 1
        /\ TasksOf(o) = {}
        /\ \A e \in Endpoints : received[e][o] = 1

LastPatches == {patchLog[o].last[1] : o \in {x \in OrderIds : patchLog[x].last # << >>}}

\* C12: a lifecycle action of a user whose role is not COURIER is answered
\* Forbidden in every order state, and the order is left unchanged.
C12_NonCourierForbidden ==
    \A p \in LastPatches :
        RoleOf(p.user) # "COURIER" => (p.response = "forbidden" /\ ~p.changed)

\* an admin's complete_delivery on an order in delivery was refused
C12_Witness ==
    \E p \in LastPatches :
        /\ RoleOf(p.user) # "COURIER"
        /\ p.action = "complete_delivery"
        /\ p.status = "IN_DELIVERY"
        /\ p.response = "forbidden"

\* the state the spec's table lists as the precondition of an action
PreconditionOf(action) ==
    CASE action = "start_delivery"  -> "PENDING"
      [] action = "pause_delivery"  -> "IN_DELIVERY"
      [] action = "resume_delivery" -> "PAUSED"

\* C13: for a courier, start_delivery succeeds only on an order read as
\* PENDING, pause_delivery only as IN_DELIVERY, resume_delivery only as PAUSED;
\* from any other state the answer is InvalidState and the order is unchanged.
C13_StateGuards ==
    \A p \in LastPatches :
        (RoleOf(p.user) = "COURIER" /\ p.action # "complete_delivery")
        => IF p.status = PreconditionOf(p.action)
           THEN p.response = "ok"
           ELSE p.response = "invalidState" /\ ~p.changed

\* a courier's start_delivery on a DELIVERED order was refused
C13_Witness ==
    \E p \in LastPatches :
        /\ RoleOf(p.user) = "COURIER"
        /\ p.action = "start_delivery"
        /\ p.status = "DELIVERED"
        /\ p.response = "invalidState"

\* C14: a courier's complete_delivery on an order that is neither IN_DELIVERY
\* nor PAUSED is answered InvalidState and the order is not updated.
C14_CompleteGuard ==
    \A p \in LastPatches :
        (/\ RoleOf(p.user) = "COURIER"
         /\ p.action = "complete_delivery"
         /\ p.status \notin {"IN_DELIVERY", "PAUSED"})
        => (p.response = "invalidState" /\ ~p.changed)

\* C15: once an order is DELIVERED or FAILED, no step changes its status, its
\* courier or its delivered-at timestamp.
C15_TerminalStates ==
    [][\A o \in DOMAIN orders :
          orders[o].orderStatus \in {"DELIVERED", "FAILED"}
          => /\ o \in DOMAIN orders'
             /\ orders'[o].orderStatus = orders[o].orderStatus
             /\ orders'[o].courierId = orders[o].courierId
             /\ orders'[o].deliveredAt = orders[o].deliveredAt]_vars

(***************************************************************************)
(* Scheduler and order numbers: claims                                     *)
(***************************************************************************)
\* C2: between any two scheduler runs that generate orders for the same
\* customer at least the eligibility period (30 days in the code) elapses.
C2_OncePerWindow ==
    \A c \in SchedCustomerIds : genLog[c].minGap >= EligibilityDays

\* C3: no two stored orders share an order number, for any interleaving of
\* scheduler insertions and manual creations.
C3_UniqueOrderNumbers ==
    \A a, b \in DOMAIN orders :
        a # b => orders[a].orderNumber # orders[b].orderNumber

\* two creators computed the same max + 1 and the later insert was rejected
C3_Witness ==
    /\ dupRejected
    /\ Cardinality(DOMAIN orders) >= 2

\* C4: order numbers are strictly increasing in creation order, so a number
\* once assigned is never assigned to a later order, also after deletions.
C4_StrictlyIncreasing ==
    \A i, j \in 1..Len(numberLog) : i < j => numberLog[i] < numberLog[j]

(***************************************************************************)
(* Scheduler runs: claims                                                  *)
(***************************************************************************)
\* the customers the claim selects: active, and the eligibility period has
\* passed since creation or since the last check
ShouldBeProcessed ==
    {c \in DOMAIN customers :
        /\ customers[c].isActive
        /\ \/ clock - customers[c].createdAt >= EligibilityDays
           \/ clock - customers[c].updatedAt >= EligibilityDays}

\* the runs that start in this step
Started(before, after) ==
    {r \in BagToSet(after) : /\ CopiesIn(r, after) > CopiesIn(r, before)
                             /\ r.done = {}
                             /\ r.pc = "client"
                             /\ Len(r.queue) = Cardinality(r.todo)}

\* C16: a run selects exactly the active customers whose 30 days have passed
\* since creation or since the last check; only a selected customer, while
\* the run is at it, gets scheduler orders or a last-check update; a run that
\* ends has gone through every customer it selected.
C16_EligibleProcessed ==
    /\ [](runLog # << >> => runLog[1].done = runLog[1].todo)
    /\ [][/\ \A r \in Started(runs, runs') : r.todo = ShouldBeProcessed
          /\ \A c \in DOMAIN customers \cap DOMAIN customers' :
                customers'[c].updatedAt # customers[c].updatedAt
                => \E r \in BagToSet(runs) : r.client = c /\ c \in r.todo
          /\ \A id \in DOMAIN orders' \ DOMAIN orders :
                orders'[id].deliveryDate # NoDate
                => \E r \in BagToSet(runs) :
                      r.client = orders'[id].customerId /\ r.client \in r.todo]_vars

\* a run ended that served customer 1 and left out the deactivated customer 2
C16_Witness ==
    /\ runLog # << >>
    /\ runLog[1].todo = {1}
    /\ 1 \in runLog[1].ordered
    /\ 1 \in runLog[1].touched
    /\ 2 \in DOMAIN customers
    /\ ~customers[2].isActive
    /\ customers[2].updatedAt = customers[2].createdAt

\* the scheduler orders of a customer in the table
AutoOrdersOf(c) ==
    {id \in DOMAIN orders : orders[id].customerId = c /\ orders[id].deliveryDate # NoDate}

\* a run that met no failure and no other creator has finished the orders of
\* its first customer, and the table holds nothing else
FirstClientDone(r) ==
    /\ r.pc = "touch"
    /\ r.alone
    /\ r.hit = {}
    /\ r.done = {}
    /\ r.client \in DOMAIN customers
    /\ Cardinality(DOMAIN orders) = Len(r.nums)

\* C17: for a daily customer created more than the eligibility period ago and
\* never checked, one run without failures creates one order per day of the
\* horizon, HorizonDays orders in all (30 in the code), each PENDING.
C17_OneOrderPerHorizonDay ==
    \A r \in BagToSet(runs) :
        (/\ FirstClientDone(r)
         /\ customers[r.client].orderPattern = "daily"
         /\ customers[r.client].updatedAt = customers[r.client].createdAt
         /\ r.today - customers[r.client].createdAt = EligibilityDays + 1)
        => /\ Cardinality(AutoOrdersOf(r.client)) = HorizonDays
           /\ \A id \in AutoOrdersOf(r.client) : orders[id].orderStatus = "PENDING"

\* C18: as long as no other creator (and no deletion) acts during a run, the
\* k-th order the run creates has number M + k, M being the maximum at its
\* start, and none of its inserts is rejected.
C18_ConsecutiveNumbers ==
    \A r \in BagToSet(runs) :
        r.alone => /\ \A k \in 1..Len(r.nums) : r.nums[k] = r.base + k
                   /\ r.hit = {}

\* a run on its own continued from an existing maximum with two orders
C18_Witness ==
    \E r \in BagToSet(runs) : r.alone /\ r.base >= 1 /\ Len(r.nums) >= 2

\* C19: for a customer whose pattern is every_other_day_even or
\* every_other_day_odd, a run without failures creates at least one order and
\* fewer orders than the horizon has dates.
C19_EveryOtherDayOrders ==
    \A r \in BagToSet(runs) :
        (/\ FirstClientDone(r)
         /\ customers[r.client].orderPattern
               \in {"every_other_day_even", "every_other_day_odd"})
        => /\ Cardinality(AutoOrdersOf(r.client)) >= 1
           /\ Cardinality(AutoOrdersOf(r.client)) < HorizonDays + 1

\* C20: when a customer of a run fails (row missing, insert rejected, update
\* rejected), the run still goes through every customer it selected; those
\* without a failure get their last-check update, and their orders when their
\* pattern selects days.
C20_FailureIsolated ==
    (runLog # << >> /\ runLog[1].hit # {}) =>
        /\ runLog[1].done = runLog[1].todo
        /\ \A c \in runLog[1].todo \ runLog[1].hit :
              /\ c \in runLog[1].touched
              /\ (c \in DOMAIN customers /\ customers[c].orderPattern = "daily")
                    => c \in runLog[1].ordered

\* customer 1 failed in a run, customer 2 after it got orders and its update
C20_Witness ==
    /\ runLog # << >>
    /\ runLog[1].todo = {1, 2}
    /\ runLog[1].hit = {1}
    /\ 2 \in runLog[1].ordered
    /\ 2 \in runLog[1].touched

(***************************************************************************)
(* Purchase dispatch of the handlers: claims                               *)
(***************************************************************************)
\* the orders for which a purchase event is due
PurchaseDue(order) ==
    \/ order.paymentStatus = "PAID"
    \/ (order.orderStatus = "DELIVERED" /\ order.paymentMethod = "CASH")

\* C21: a PATCH that succeeded started a dispatch task if and only if the
\* updated order is PAID, or DELIVERED and paid in CASH; an endpoint received
\* a call, or a dispatch task exists, only for such an order.
C21_DispatchWhenDue ==
    \A o \in DOMAIN orders :
        /\ (patchLog[o].last # << >> /\ patchLog[o].last[1].response = "ok")
              => (patchLog[o].last[1].spawned <=> PurchaseDue(orders[o]))
        /\ ((\E e \in Endpoints : received[e][o] > 0) \/ TasksOf(o) # {})
              => PurchaseDue(orders[o])

\* a courier completed the delivery of an unpaid CARD order: no dispatch
\* task was started and no endpoint was called
C21_Witness ==
    \E o \in DOMAIN orders :
        /\ patchLog[o].last # << >>
        /\ patchLog[o].last[1].response = "ok"
        /\ patchLog[o].last[1].action = "complete_delivery"
        /\ ~patchLog[o].last[1].spawned
        /\ orders[o].paymentStatus = "UNPAID"
        /\ orders[o].paymentMethod = "CARD"
        /\ orders[o].orderStatus = "DELIVERED"
        /\ \A e \in Endpoints : received[e][o] = 0

\* the number of dispatch tasks of an order at a position
CountAt(bag, orderId, pc) ==
    LET at == {t \in BagToSet(bag) : t.orderId = orderId /\ t.pc = pc}
    IN  IF at = {} THEN 0 ELSE BagCardinality([t \in at |-> bag[t]])

\* a step of a dispatch task or of the ledger's reachability, not of a handler
TaskStepTaken ==
    \/ received' # received
    \/ eventDispatch' # eventDispatch
    \/ marks' # marks
    \/ ledgerUp' # ledgerUp
    \/ (tasks' # tasks /\ BagCardinality(tasks') <= BagCardinality(tasks))

\* C22: no step of a dispatch task, whatever the ledger and the endpoints do
\* (success, network failure, ledger failure), changes a committed order or
\* the answer a PATCH caller got; and the answer of a PATCH that starts a
\* dispatch is there while its task is still before its ledger check.
C22_DispatchNeverAffectsTransition ==
    [][/\ TaskStepTaken =>
            /\ orders' = orders
            /\ \A o \in OrderIds : patchLog'[o].last = patchLog[o].last
       /\ \A o \in OrderIds :
            (/\ BagCardinality(tasks') > BagCardinality(tasks)
             /\ patchLog'[o].last # << >>
             /\ patchLog'[o].last[1].spawned
             /\ patchLog'[o] # patchLog[o])
            => /\ patchLog'[o].last[1].response = "ok"
               /\ CountAt(tasks', o, "check") > CountAt(tasks, o, "check")]_vars

\* a PATCH was answered ok, and its task then met a network failure of one
\* endpoint and a ledger that could not be written
C22_Witness ==
    \E o \in DOMAIN orders :
        /\ patchLog[o].last # << >>
        /\ patchLog[o].last[1].response = "ok"
        /\ patchLog[o].last[1].spawned
        /\ TasksOf(o) = {}
        /\ marks[o].calls = 1
        /\ ~marks[o].reached
        /\ received["ga4"][o] = 0
        /\ received["meta"][o] = 1

\* C23: markDispatched is called only by a task whose two endpoint attempts
\* have completed (a failed one and an unconfigured one count as completed);
\* a task whose check did not find the order dispatched goes on to the
\* endpoints, and leaves them only by calling markDispatched.
C23_MarkAfterBothAttempts ==
    [][\A o \in OrderIds :
        /\ (\/ marks'[o].calls # marks[o].calls
            \/ LedgerRows(o, "order_paid")' # LedgerRows(o, "order_paid"))
           => \E t \in BagToSet(tasks) :
                 /\ t.orderId = o
                 /\ t.pc = "send"
                 /\ t.pending = {}
                 /\ CopiesIn(t, tasks') < CopiesIn(t, tasks)
        /\ CountAt(tasks', o, "send") < CountAt(tasks, o, "send")
           => marks'[o].calls = Saturate(marks[o].calls)
        /\ (/\ CountAt(tasks', o, "check") < CountAt(tasks, o, "check")
            /\ ~(ledgerUp /\ LedgerRows(o, "order_paid") > 0))
           => CountAt(tasks', o, "send") > CountAt(tasks, o, "send")]_vars

\* the order was marked after an attempt on the unconfigured GA4 endpoint
\* (a no-op) and a network failure of the Meta endpoint
C23_Witness ==
    \E o \in DOMAIN orders :
        /\ ~configured["ga4"]
        /\ configured["meta"]
        /\ received["meta"][o] = 0
        /\ marks[o].calls = 1
        /\ LedgerRows(o, "order_paid") = 1
        /\ TasksOf(o) = {}

\* C24 as stated: a task whose check runs while the ledger holds the row of
\* the order ends there, without an endpoint call and without a ledger write.
C24_NoOpWhenHeld ==
    [][\A o \in OrderIds :
        (/\ LedgerRows(o, "order_paid") > 0
         /\ CountAt(tasks', o, "check") < CountAt(tasks, o, "check"))
        => /\ CountAt(tasks', o, "send") = CountAt(tasks, o, "send")
           /\ UNCHANGED <<received, eventDispatch>>]_vars

\* C24, amended: a task whose check reads the row of the order in the ledger
\* (the row is there and the read succeeds) ends there, without an endpoint
\* call and without a ledger write.
C24_NoOpWhenFound ==
    [][\A o \in OrderIds :
        (/\ ledgerUp
         /\ LedgerRows(o, "order_paid") > 0
         /\ CountAt(tasks', o, "check") < CountAt(tasks, o, "check"))
        => /\ CountAt(tasks', o, "send") = CountAt(tasks, o, "send")
           /\ UNCHANGED <<received, eventDispatch>>]_vars

\* a second task of a dispatched order found the row and ended: every read of
\* the ledger succeeded, one mark, no endpoint called twice
C24_Witness ==
    \E o \in DOMAIN orders :
        /\ marks[o].skipped
        /\ ~marks[o].unread
        /\ marks[o].calls = 1
        /\ LedgerRows(o, "order_paid") = 1
        /\ TasksOf(o) = {}
        /\ \A e \in Endpoints : received[e][o] <= 1

\* C25: a task whose ledger read fails goes on to the endpoints as if the
\* order were not dispatched, and markDispatched never throws, also when its
\* write fails.
C25_LedgerFailuresSwallowed ==
    /\ [](\A o \in OrderIds : ~marks[o].threw)
    /\ [][\A o \in OrderIds :
            (~ledgerUp /\ CountAt(tasks', o, "check") < CountAt(tasks, o, "check"))
            => /\ CountAt(tasks', o, "send") > CountAt(tasks, o, "send")
               /\ LET t == [pc |-> "send", orderId |-> o,
                            pending |-> {e \in Endpoints : configured[e]}]
                  IN  CopiesIn(t, tasks') > CopiesIn(t, tasks)]_vars

\* a task read the ledger in vain, an endpoint got its call, and the mark
\* that followed could not be written
C25_Witness ==
    \E o \in DOMAIN orders :
        /\ marks[o].unread
        /\ marks[o].calls = 1
        /\ ~marks[o].reached
        /\ LedgerRows(o, "order_paid") = 0
        /\ TasksOf(o) = {}
        /\ \E e \in Endpoints : received[e][o] = 1

(***************************************************************************)
(* Admission surface: claims                                               *)
(***************************************************************************)
\* C26: a request to an order endpoint reaches its handler only after
\* checkRateLimit allowed it, and the handler's response carries the
\* remaining and the reset time of that result; a request checkRateLimit
\* denied is answered 429 with the reset time, and no handler runs for it.
C26_AdmissionBeforeHandler ==
    [][/\ (orders' # orders \/ (gate'.last # gate.last /\ gate'.last[1].handled))
            => /\ gate.waiting # << >>
               /\ gate'.waiting = << >>
               /\ gate'.last[1].handled
               /\ gate'.last[1].remaining = gate.waiting[1].remaining
               /\ gate'.last[1].reset = ToSeconds(gate.waiting[1].resetTime)
       /\ (gate'.waiting # << >> /\ gate.waiting = << >>)
            => /\ lastResult' # << >>
               /\ lastResult'[1].allowed
               /\ gate'.waiting[1].remaining = lastResult'[1].remaining
               /\ gate'.waiting[1].resetTime = lastResult'[1].resetTime
       /\ (rateLimitStore' # rateLimitStore /\ lastResult' # << >> /\ ~lastResult'[1].allowed)
            => /\ gate'.waiting = << >>
               /\ orders' = orders
               /\ gate'.last # << >>
               /\ gate'.last[1].status = 429
               /\ ~gate'.last[1].handled
               /\ gate'.last[1].reset = ToSeconds(lastResult'[1].resetTime)]_vars

\* after handlers ran for admitted requests, a request was denied with 429
\* and a reset time in the future, and the order is as the handlers left it
C26_Witness ==
    /\ gate.last # << >>
    /\ gate.last[1].status = 429
    /\ gate.last[1].retryAfter >= 1
    /\ gate.waiting = << >>
    /\ lastResult # << >>
    /\ ~lastResult[1].allowed
    /\ \E o \in DOMAIN orders : orders[o].orderStatus = "IN_DELIVERY"

(***************************************************************************)
(* Scheduler runs: what a run writes (claims)                              *)
(***************************************************************************)
\* the number of runs that are about to update the last check of a customer
TouchingRuns(bag, c) ==
    LET at == {r \in BagToSet(bag) : r.pc = "touch" /\ r.client = c}
    IN  IF at = {} THEN 0 ELSE BagCardinality([r \in at |-> bag[r]])

\* C27: when a run is through with a customer it selected, the customer's
\* last check becomes the current time, whether orders were created for it,
\* none were, or an insert failed; a customer no run selected keeps its last
\* check.
C27_LastCheckUpdated ==
    /\ [](runLog # << >> =>
            \A c \in runLog[1].todo \cap DOMAIN customers : c \in runLog[1].touched)
    /\ [][\A c \in DOMAIN customers \cap DOMAIN customers' :
            /\ TouchingRuns(runs', c) < TouchingRuns(runs, c)
                  => customers'[c].updatedAt = clock
            /\ (\A r \in BagToSet(runs) : c \notin r.todo)
                  => customers'[c].updatedAt = customers[c].updatedAt]_vars

\* a run ended that updated customer 1, one of whose inserts was rejected,
\* and the every-other-day customer 2, for whom it created no order; a
\* customer that was not selected would be at its creation time
C27_Witness ==
    /\ runLog # << >>
    /\ runLog[1].todo = {1, 2}
    /\ 1 \in runLog[1].hit
    /\ 1 \in runLog[1].ordered
    /\ 2 \notin runLog[1].ordered
    /\ runLog[1].touched = {1, 2}
    /\ \A c \in {1, 2} : c \in DOMAIN customers /\ customers[c].updatedAt = clock
    /\ customers[2].orderPattern = "every_other_day_even"

\* a step of a scheduler run: not a POST request and not a client deletion
RunStepTaken ==
    /\ reqs' = reqs
    /\ DOMAIN customers' = DOMAIN customers

\* a customer row without its last check
WithoutLastCheck(row) == [row EXCEPT !.updatedAt = 0]

\* C28: a step of a scheduler run keeps every order there is, with all its
\* fields, and changes no field of a customer but the last check.
C28_RunOnlyAdds ==
    [][RunStepTaken =>
        /\ \A id \in DOMAIN orders : id \in DOMAIN orders' /\ orders'[id] = orders[id]
        /\ \A c \in DOMAIN customers :
              WithoutLastCheck(customers'[c]) = WithoutLastCheck(customers[c])]_vars

\* a run ended that added scheduler orders next to a manual order, which is
\* still there, and updated the last check of customer 1
C28_Witness ==
    /\ runLog # << >>
    /\ 1 \in runLog[1].touched
    /\ 1 \in runLog[1].ordered
    /\ \E id \in DOMAIN orders : orders[id].deliveryDate = NoDate
    /\ \E id \in DOMAIN orders : orders[id].deliveryDate # NoDate
    /\ customers[1].updatedAt > customers[1].createdAt

(***************************************************************************)
(* Concurrent requests: claims                                             *)
(***************************************************************************)
\* the edges of the lifecycle graph
LifecycleEdges ==
    {<<"PENDING", "IN_DELIVERY">>, <<"IN_DELIVERY", "PAUSED">>,
     <<"PAUSED", "IN_DELIVERY">>, <<"PENDING", "DELIVERED">>,
     <<"IN_DELIVERY", "DELIVERED">>, <<"PAUSED", "DELIVERED">>}

\* C29: under every interleaving of PATCH requests on an order, each change
\* of the stored status follows an edge of the lifecycle graph (no request
\* that read an older status overwrites a newer one), and the courier of an
\* order that was started is not replaced by a second start.
C29_OnlyLifecycleEdges ==
    [][\A o \in DOMAIN orders \cap DOMAIN orders' :
        /\ orders'[o].orderStatus # orders[o].orderStatus
              => <<orders[o].orderStatus, orders'[o].orderStatus>> \in LifecycleEdges
        /\ orders[o].courierId # NoCourier
              => orders'[o].courierId = orders[o].courierId]_vars

\* C30: when a run has ended, every daily customer it selected (and that is
\* still there) has an order for each date of the horizon, also when manual
\* creations went on during the run.
C30_EveryDateGenerated ==
    runLog # << >> =>
        \A c \in runLog[1].todo \cap DOMAIN customers :
            customers[c].orderPattern = "daily" =>
                \A d \in clock..(clock + HorizonDays) :
                    \E id \in AutoOrdersOf(c) : orders[id].deliveryDate = d

\* ---------------------------------------------------------------------------
\* Timers: setTimeout(runAutoOrderScheduler, 10000) at start-up and
\* setInterval(runAutoOrderScheduler, 3600000); neither looks at a run that is
\* still executing.  The model keeps at most MaxOverlap runs in flight.
MaxOverlap == 2

TimerFires ==
    /\ BagCardinality(runs) < MaxOverlap
    /\ RunBegin

NextTimers ==
    \/ TimerFires
    \/ \E run \in BagToSet(runs) : ClientBegin(run)
    \/ \E run \in BagToSet(runs) : ReadMax(run)
    \/ \E run \in BagToSet(runs) : InsertOrder(run)
    \/ \E run \in BagToSet(runs) : TouchClient(run)

SpecTimers == InitNumbering /\ [][NextTimers]_vars

\* C31: at most one scheduler run is in progress at any time: a timer that
\* fires while a run is executing starts no second run over the same
\* eligible customers.
C31_SingleRun ==
    \A r \in BagToSet(runs) :
        /\ CopiesIn(r, runs) = 1
        /\ \A q \in BagToSet(runs) : q # r => q.todo \cap r.todo = {}

\* ---------------------------------------------------------------------------
\* Successive runs: a timer fires with no run in progress, and for a customer
\* that had orders generated before, exactly EligibilityDays after that run.
RunStartSuccessive ==
    /\ \A c \in DOMAIN customers :
          genLog[c].last = -1 \/ clock - genLog[c].last = EligibilityDays
    /\ RunStartAlone

NextSuccessive ==
    \/ RunStartSuccessive
    \/ \E run \in BagToSet(runs) : ClientBegin(run)
    \/ \E run \in BagToSet(runs) : ReadMax(run)
    \/ \E run \in BagToSet(runs) : InsertOrder(run)
    \/ \E run \in BagToSet(runs) : TouchClient(run)
    \/ DayTick

\* day 0: a daily customer and a second customer of any pattern, active or
\* not, both created today
InitSuccessiveDb ==
    /\ clock = 0
    /\ orders = << >>
    /\ nextOrderId = 1
    /\ numberLog = << >>
    /\ customers \in {[c \in SchedCustomerIds |->
                          IF c = 1 THEN CustomerRow(0, "daily")
                          ELSE [CustomerRow(0, p) EXCEPT !.isActive = active]] :
                        p \in Patterns, active \in BOOLEAN}

InitSuccessive == InitRL /\ InitSuccessiveDb /\ InitDispatch /\ InitSched

SpecSuccessive == InitSuccessive /\ [][NextSuccessive]_vars

\* C32: the batches of two successive eligible runs, the second exactly
\* EligibilityDays after the first, cover disjoint delivery dates: no date
\* has two auto-orders of one customer.
C32_DisjointBatches ==
    \A a, b \in DOMAIN orders :
        (a # b /\ orders[a].customerId = orders[b].customerId)
            => orders[a].deliveryDate # orders[b].deliveryDate

NextBatch ==
    \/ RunStartAlone
    \/ \E run \in BagToSet(runs) : ClientBegin(run)
    \/ \E run \in BagToSet(runs) : ReadMax(run)
    \/ \E run \in BagToSet(runs) : InsertOrderAnyTime(run)
    \/ \E run \in BagToSet(runs) : TouchClient(run)

SpecBatch == InitNumbering /\ [][NextBatch]_vars

\* the minutes since midnight of a delivery time 'hh:mm'
MinutesOf(time) == (time[1] * 10 + time[2]) * 60 + time[3] * 10 + time[4]

\* C34: every order the scheduler created is PENDING, UNPAID, CASH and not
\* prepaid, its delivery date is within [today, today + horizon] and its
\* delivery time is hh:mm with 11:00 <= hh:mm <= 14:00.
C34_AutoOrderFields ==
    \A id \in DOMAIN orders :
        /\ orders[id].orderStatus = "PENDING"
        /\ orders[id].paymentStatus = "UNPAID"
        /\ orders[id].paymentMethod = "CASH"
        /\ orders[id].isPrepaid = FALSE
        /\ orders[id].deliveryDate >= clock
        /\ orders[id].deliveryDate <= clock + HorizonDays
        /\ Len(orders[id].deliveryTime) = 4
        /\ \A i \in 1..4 : orders[id].deliveryTime[i] \in 0..9
        /\ orders[id].deliveryTime[3] <= 5
        /\ MinutesOf(orders[id].deliveryTime) >= MinutesOf(FormatTime(11, 0))
        /\ MinutesOf(orders[id].deliveryTime) <= MinutesOf(FormatTime(14, 0))

\* the scheduler created an order for today at 11:00 and one for the last
\* day of the horizon in the hour from 13:00, not on the hour
C34_Witness ==
    /\ \E id \in DOMAIN orders :
          /\ orders[id].deliveryDate = clock
          /\ orders[id].deliveryTime = FormatTime(11, 0)
    /\ \E id \in DOMAIN orders :
          /\ orders[id].deliveryDate = clock + HorizonDays
          /\ orders[id].deliveryTime[1] = 1
          /\ orders[id].deliveryTime[2] = 3
          /\ MinutesOf(orders[id].deliveryTime) > MinutesOf(FormatTime(13, 0))

\* ---------------------------------------------------------------------------
\* The lifecycle requests of two couriers and an admin on an order that is
\* never due for a purchase event (UNPAID, CARD), over several days.
NextCouriers ==
    \/ \E u \in Users, o \in OrderIds, a \in Actions : PatchLogged(u, o, a)
    \/ \E c \in CustomerIds : Post("admin1", c, "UNPAID", "CARD")
    \/ DayTick

SpecCouriers == Init /\ [][NextCouriers]_vars

\* C35: a request that changed an order set its courier to the acting
\* courier if it was start_delivery and left the courier unchanged otherwise;
\* it set the delivered-at timestamp, to the current time, if it was
\* complete_delivery and left it unchanged otherwise.
C35_CourierAndDeliveredAt ==
    [][\A o \in DOMAIN orders :
          orders'[o] # orders[o] =>
              LET p == patchLog'[o].last[1]
              IN  /\ p.response = "ok"
                  /\ orders'[o].courierId =
                        IF p.action = "start_delivery" THEN p.user
                        ELSE orders[o].courierId
                  /\ orders'[o].deliveredAt =
                        IF p.action = "complete_delivery" THEN clock
                        ELSE orders[o].deliveredAt]_vars

\* courier2 completed, on a later day, the delivery that courier1 had
\* started and paused: the order still has courier1
C35_Witness ==
    /\ patchLog[1].last # << >>
    /\ patchLog[1].last[1].user = "courier2"
    /\ patchLog[1].last[1].action = "complete_delivery"
    /\ patchLog[1].last[1].status = "PAUSED"
    /\ patchLog[1].last[1].changed
    /\ patchLog[1].paused
    /\ orders[1].courierId = "courier1"
    /\ orders[1].deliveredAt = clock
    /\ clock > 0

\* ---------------------------------------------------------------------------
\* PATCH requests of a courier and an admin, with any body, on an order that
\* may not exist yet; the order is created UNPAID with CASH, so completing
\* it starts a dispatch task.
NextRejections ==
    \/ \E u \in DispatchUsers, o \in OrderIds, b \in Bodies : PatchRequest(u, o, b)
    \/ \E c \in CustomerIds : Post("admin1", c, "UNPAID", "CASH")
    \/ DayTick

SpecRejections == Init /\ [][NextRejections]_vars

\* the answers of a rejected lifecycle request
Rejections == {"forbidden", "invalidState", "notFound", "validation"}

\* C36: a lifecycle request that is rejected (Forbidden, InvalidState,
\* NotFound, validation error) changes no order, writes no order-updated
\* audit entry, starts no dispatch task and touches no ledger row.
C36_RejectedNoSideEffect ==
    [][\A u \in DispatchUsers, o \in OrderIds, b \in Bodies :
          (PatchRequest(u, o, b) /\ patchLog'[o].last[1].response \in Rejections)
              => /\ orders' = orders
                 /\ patchLog'[o].audits = patchLog[o].audits
                 /\ tasks' = tasks
                 /\ eventDispatch' = eventDispatch
                 /\ marks' = marks
                 /\ received' = received]_vars

\* after an accepted complete_delivery, which wrote an audit entry and
\* started a dispatch task, a courier's start_delivery was rejected:
\* still one audit entry and one task
C36_Witness ==
    /\ patchLog[1].last # << >>
    /\ patchLog[1].last[1].response = "invalidState"
    /\ patchLog[1].last[1].action = "start_delivery"
    /\ patchLog[1].audits = 1
    /\ BagCardinality(tasks) = 1
    /\ orders[1].orderStatus = "DELIVERED"

(***************************************************************************)
(* Rate limiter: window boundary, denied calls, sweep, endpoint types      *)
(***************************************************************************)
\* C37: a call on a record that is not reset drops exactly the timestamps
\* older than now - windowMs: a timestamp t >= now - windowMs survives, so a
\* request made exactly windowMs ago still counts.
C37_BoundaryCounts ==
    [][\A k \in Identifiers, c \in ConfigTypes :
          (CheckRateLimit(k, c) /\ ~NeedsReset(rateLimitStore, k, now))
              => LET kept == SelectSeq(rateLimitStore[k].requestTimestamps,
                                LAMBDA t : t >= now - RATE_LIMIT_CONFIGS[c].windowMs)
                 IN  rateLimitStore'[k].requestTimestamps =
                        IF lastResult'[1].allowed THEN Append(kept, now) ELSE kept]_vars

\* C40: the limits are accounted per endpoint type: a call of a client is
\* denied under a config only when the client's allowed calls under that
\* same config fill its budget; calls admitted under another config consume
\* nothing of it.
C40_PerEndpointBudget ==
    (lastResult # << >> /\ ~lastResult[1].allowed) =>
        Len(OfConfig(admitted[lastResult[1].key], lastResult[1].cfg))
            >= MaxRequestsOf(lastResult[1].cfg)

\* C38: a denied call stores the list pruned to the current window and
\* nothing else, and after it a call of the same kind at the reported reset
\* time or later, with no allowed call in between, is allowed.
C38_DeniedRecordsNothing ==
    /\ [][\A k \in Identifiers, c \in ConfigTypes :
            (CheckRateLimit(k, c) /\ ~lastResult'[1].allowed)
                => /\ k \in DOMAIN rateLimitStore
                   /\ rateLimitStore'[k].requestTimestamps =
                         FilterTimestamps(rateLimitStore[k].requestTimestamps,
                                          now - RATE_LIMIT_CONFIGS[c].windowMs)]_vars
    /\ []((lastResult # << >> /\ ~lastResult[1].allowed) =>
            \A t \in lastResult[1].resetTime..(MaxTime + WindowMs) :
                checkRateLimit(rateLimitStore, lastResult[1].key,
                               RATE_LIMIT_CONFIGS[lastResult[1].cfg], t).result.allowed)

\* C39: the sweep is transparent to admission: for every key and config, a
\* call at the time of the sweep or later gives the same result and leaves
\* the same record for the key whether or not the sweep has run, so all
\* later results are the same.
C39_SweepTransparent ==
    [][Cleanup =>
          \A k \in Identifiers, c \in ConfigTypes, t \in now..(MaxTime + WindowMs) :
              LET kept  == checkRateLimit(rateLimitStore, k, RATE_LIMIT_CONFIGS[c], t)
                  swept == checkRateLimit(rateLimitStore', k, RATE_LIMIT_CONFIGS[c], t)
              IN  /\ swept.result = kept.result
                  /\ swept.store[k] = kept.store[k]]_vars

\* the sweep evicted the record of a key that still has an allowed call in
\* the trailing window
C39_Witness ==
    /\ "ip1" \notin DOMAIN rateLimitStore
    /\ admitted["ip1"] # << >>
    /\ lastResult = << >>
====
